---- MODULE Spec2Model ----
(***************************************************************************)
(* The bonding-curve pallet of pallets/template/src/lib.rs: the four       *)
(* Option<u128> storage values, the TokenSheet map, and the three          *)
(* dispatchables base_init, vstoken_buy_token and token_buy_vstoken.       *)
(*                                                                         *)
(* TLC's integers are 32 bits wide and the pallet's are 128 bits wide, so  *)
(* a u128 is written here as the sequence of its base-256 digits, least    *)
(* significant first, with no leading zero digit: 0 is <<>>, 1000 is       *)
(* <<232, 3>>.  U(n) is the u128 of a small number n and ToInt[d] the      *)
(* number of a short digit sequence.  An I64F64 (FixedI128<U64>) is the    *)
(* sign and the magnitude of its 128-bit representation, value * 2^64.     *)
(*                                                                         *)
(* The arithmetic is written as functions, not operators: TLC evaluates    *)
(* the argument of a function application once, before the body.           *)
(***************************************************************************)
EXTENDS Integers, Sequences, FiniteSets

(***************************************************************************)
(* Unsigned integers of any width, as digit sequences.                     *)
(***************************************************************************)
Digits == Seq(Int)

\* drop the most significant zero digits
Norm[s \in Digits] ==
    IF s = <<>> THEN <<>>
    ELSE IF s[Len(s)] = 0 THEN Norm[SubSeq(s, 1, Len(s) - 1)]
    ELSE s

\* the digits of a number TLC can hold
UFrom[n \in Nat] == IF n = 0 THEN <<>> ELSE <<n % 256>> \o UFrom[n \div 256]

U(n) == UFrom[n]

\* the number of a digit sequence, for values TLC can hold (below 2^31)
ToInt[s \in Digits] == IF s = <<>> THEN 0 ELSE s[1] + 256 * ToInt[Tail(s)]

\* 2^(8k)
Pow256[k \in Nat] == [i \in 1..(k + 1) |-> IF i = k + 1 THEN 1 ELSE 0]

\* digit columns (possibly large or negative) to digits in 0..255; the
\* total must be >= 0
Carry[cols \in Digits, i \in Nat, c \in Int, acc \in Digits] ==
    IF i > Len(cols)
    THEN IF c = 0 THEN acc ELSE Carry[cols, i, c \div 256, Append(acc, c % 256)]
    ELSE Carry[cols, i + 1, (cols[i] + c) \div 256, Append(acc, (cols[i] + c) % 256)]

AddN[a \in Digits, b \in Digits] ==
    Norm[Carry[[i \in 1..(IF Len(a) >= Len(b) THEN Len(a) ELSE Len(b)) |->
                   (IF i <= Len(a) THEN a[i] ELSE 0) + (IF i <= Len(b) THEN b[i] ELSE 0)],
               1, 0, <<>>]]

LtFrom[a \in Digits, b \in Digits, i \in Nat] ==
    IF i = 0 THEN FALSE
    ELSE IF a[i] # b[i] THEN a[i] < b[i]
    ELSE LtFrom[a, b, i - 1]

\* a < b, for normalised a and b
LtN[a \in Digits, b \in Digits] ==
    IF Len(a) # Len(b) THEN Len(a) < Len(b) ELSE LtFrom[a, b, Len(a)]

\* a - b, for a >= b
SubN[a \in Digits, b \in Digits] ==
    Norm[Carry[[i \in 1..Len(a) |-> a[i] - (IF i <= Len(b) THEN b[i] ELSE 0)], 1, 0, <<>>]]

\* the sum of a[j] * b[k + 1 - j] over the j from i on
ColSum[a \in Digits, b \in Digits, k \in Nat, i \in Nat] ==
    IF i > Len(a) \/ i > k THEN 0
    ELSE a[i] * b[k + 1 - i] + ColSum[a, b, k, i + 1]

MulN[a \in Digits, b \in Digits] ==
    IF a = <<>> \/ b = <<>> THEN <<>>
    ELSE Norm[Carry[[k \in 1..(Len(a) + Len(b) - 1) |->
                        ColSum[a, b, k, IF k + 1 - Len(b) >= 1 THEN k + 1 - Len(b) ELSE 1]],
                    1, 0, <<>>]]

\* a * 256^k, floor(a / 256^k) and a mod 256^k
ShlN[a \in Digits, k \in Nat] == IF a = <<>> THEN <<>> ELSE [i \in 1..k |-> 0] \o a
ShrN[a \in Digits, k \in Nat] == IF Len(a) <= k THEN <<>> ELSE SubSeq(a, k + 1, Len(a))
LowN[a \in Digits, k \in Nat] == IF Len(a) <= k THEN a ELSE Norm[SubSeq(a, 1, k)]

\* a * d for one digit d
MulDigit[a \in Digits, d \in Nat] ==
    IF d = 0 THEN <<>> ELSE Norm[Carry[[i \in 1..Len(a) |-> a[i] * d], 1, 0, <<>>]]

\* the largest d in lo..hi with d * b <= r (lo * b <= r < (hi + 1) * b is given)
QDigit[r \in Digits, b \in Digits, lo \in Nat, hi \in Nat] ==
    IF lo >= hi THEN lo
    ELSE IF LtN[r, MulDigit[b, (lo + hi + 1) \div 2]]
         THEN QDigit[r, b, lo, (lo + hi + 1) \div 2 - 1]
         ELSE QDigit[r, b, (lo + hi + 1) \div 2, hi]

\* the digits n + 1, n and n - 1 of r as one number, n the length of b
Top3[r \in Digits, n \in Nat] ==
    (IF n + 1 <= Len(r) THEN r[n + 1] * 65536 ELSE 0)
    + (IF n <= Len(r) THEN r[n] * 256 ELSE 0)
    + (IF n >= 2 /\ n - 1 <= Len(r) THEN r[n - 1] ELSE 0)

\* floor(r / b) for b # 0 and r < 256 * b: the two leading digits of b bound
\* the quotient digit from both sides, and QDigit searches between them
QuotDigit[r \in Digits, b \in Digits] ==
    QDigit[r, b,
           Top3[r, Len(b)] \div (Top3[b, Len(b)] + 1),
           IF (Top3[r, Len(b)] + 1) \div Top3[b, Len(b)] > 255 THEN 255
           ELSE (Top3[r, Len(b)] + 1) \div Top3[b, Len(b)]]

\* long division: r1 is the remainder with digit i of a brought down, d the
\* quotient digit for r1 (256 while it is not yet found), q the quotient
DivStep[a \in Digits, b \in Digits, i \in Nat, r1 \in Digits, d \in Nat, q \in Digits] ==
    IF d = 256 THEN DivStep[a, b, i, r1, QuotDigit[r1, b], q]
    ELSE IF i = 1 THEN Norm[<<d>> \o q]
    ELSE DivStep[a, b, i - 1, Norm[<<a[i - 1]>> \o SubN[r1, MulDigit[b, d]]], 256, <<d>> \o q]

\* floor(a / b), for b # 0
DivN[a \in Digits, b \in Digits] ==
    IF a = <<>> THEN <<>> ELSE DivStep[a, b, Len(a), <<a[Len(a)]>>, 256, <<>>]

\* floor(a / 2)
HalfN[a \in Digits] ==
    Norm[[i \in 1..Len(a) |->
            (a[i] + (IF i < Len(a) THEN 256 * (a[i + 1] % 2) ELSE 0)) \div 2]]

(***************************************************************************)
(* Signed integers of any width: a sign and a magnitude; -0 is not a value.*)
(***************************************************************************)
SInt == [neg : BOOLEAN, mag : Digits]

MkS[neg \in BOOLEAN, mag \in Digits] == [neg |-> neg /\ mag # <<>>, mag |-> mag]

AddS[a \in SInt, b \in SInt] ==
    IF a.neg = b.neg THEN MkS[a.neg, AddN[a.mag, b.mag]]
    ELSE IF LtN[a.mag, b.mag] THEN MkS[b.neg, SubN[b.mag, a.mag]]
    ELSE MkS[a.neg, SubN[a.mag, b.mag]]

SubS[a \in SInt, b \in SInt] == AddS[a, MkS[~b.neg, b.mag]]

MulS[a \in SInt, b \in SInt] == MkS[a.neg # b.neg, MulN[a.mag, b.mag]]

\* floor(a / 2^64): an arithmetic shift right by the 64 fractional bits
FloorShr64[a \in SInt] ==
    IF a.neg THEN MkS[TRUE, ShrN[AddN[a.mag, SubN[Pow256[8], <<1>>]], 8]]
    ELSE MkS[FALSE, ShrN[a.mag, 8]]

\* u128::MAX = 2^128 - 1, i128::MAX = 2^127 - 1, -i128::MIN = 2^127, 2^63
U128Max == [i \in 1..16 |-> 255]
I128MaxMag == [i \in 1..16 |-> IF i = 16 THEN 127 ELSE 255]
I128MinMag == [i \in 1..16 |-> IF i = 16 THEN 128 ELSE 0]
Pow2_63 == [i \in 1..8 |-> IF i = 8 THEN 128 ELSE 0]

\* clamp to the i128 range
SatI128[a \in SInt] ==
    IF a.neg THEN (IF LtN[I128MinMag, a.mag] THEN MkS[TRUE, I128MinMag] ELSE a)
    ELSE IF LtN[I128MaxMag, a.mag] THEN MkS[FALSE, I128MaxMag] ELSE a

\* the i128 of the low 128 bits of a's two's complement
WrapBits[u \in Digits] ==
    IF LtN[u, I128MinMag] THEN MkS[FALSE, u] ELSE MkS[TRUE, SubN[Pow256[16], u]]

WrapI128[a \in SInt] ==
    IF a.neg THEN WrapBits[LowN[SubN[Pow256[16], LowN[a.mag, 16]], 16]]
    ELSE WrapBits[LowN[a.mag, 16]]

(***************************************************************************)
(* u128 arithmetic of the pallet.                                          *)
(***************************************************************************)
ClampU128[a \in Digits] == IF LtN[U128Max, a] THEN U128Max ELSE a

saturating_add[a \in Digits, b \in Digits] == ClampU128[AddN[a, b]]

saturating_sub[a \in Digits, b \in Digits] == IF LtN[a, b] THEN <<>> ELSE SubN[a, b]

saturating_mul[a \in Digits, b \in Digits] == ClampU128[MulN[a, b]]

(***************************************************************************)
(* I64F64 arithmetic of the fixed_point crate, on the raw representation.  *)
(***************************************************************************)
\* FixedI128::<extra::U64>::from_num(1)
ONE == MkS[FALSE, Pow256[8]]

\* I64F64::from_num(u128): the value does not fit from 2^63 on; the build
\* with debug assertions panics there, the build without returns the
\* wrapped value
from_num_overflows[u \in Digits] == ~LtN[u, Pow2_63]

from_num[u \in Digits] == WrapI128[MkS[FALSE, ShlN[u, 8]]]

\* u128::from_fixed(I64F64): the fraction is discarded (rounding down), and
\* a negative value does not fit
from_fixed_overflows[a \in SInt] == a.neg

from_fixed[a \in SInt] ==
    IF a.neg THEN SubN[Pow256[16], FloorShr64[a].mag] ELSE ShrN[a.mag, 8]

fx_saturating_add[a \in SInt, b \in SInt] == SatI128[AddS[a, b]]

fx_saturating_sub[a \in SInt, b \in SInt] == SatI128[SubS[a, b]]

fx_saturating_mul[a \in SInt, b \in SInt] == SatI128[FloorShr64[MulS[a, b]]]

\* for b # 0 (the crate panics on b = 0)
fx_saturating_div[a \in SInt, b \in SInt] ==
    SatI128[MkS[a.neg # b.neg, DivN[ShlN[a.mag, 8], b.mag]]]

\* one Newton step of transcendental::sqrt on raw values: (l + operand / l) / 2
SqrtStep[operand \in Digits, l \in Digits] ==
    HalfN[AddN[l, DivN[ShlN[operand, 8], l]]]

\* n more Newton steps from l, whose next value is l1; a step that leaves l
\* as it is ends the iteration, since all further steps do the same
SqrtIter[operand \in Digits, l \in Digits, l1 \in Digits, n \in Nat] ==
    IF n = 0 \/ l1 = l THEN l
    ELSE SqrtIter[operand, l1, SqrtStep[operand, l1], n - 1]

\* the Newton iteration of transcendental::sqrt from operand / 2 + 1, as
\* many steps as the type has fractional bits
SqrtNewton[operand \in Digits] ==
    SqrtIter[operand, AddN[HalfN[operand], Pow256[8]],
             SqrtStep[operand, AddN[HalfN[operand], Pow256[8]]], 64]

Ok(v) == [ok |-> TRUE, val |-> v]
Err == [ok |-> FALSE]

\* 1 / x for the inverted case of sqrt, checked: Err when it overflows
SqrtInverse[x \in Digits] ==
    IF LtN[I128MaxMag, DivN[Pow256[16], x]] THEN Err
    ELSE Ok(DivN[Pow256[16], x])

\* what SqrtInverse returns
NResult == [ok : BOOLEAN, val : Digits] \cup {Err}

\* the root of the inverse, inverted back
SqrtInverted[inv \in NResult] ==
    IF ~inv.ok THEN Err
    ELSE SqrtInverse[SqrtNewton[inv.val]]

\* transcendental::sqrt: a Result
sqrt[operand \in SInt] ==
    IF operand.neg THEN Err
    ELSE IF operand.mag = <<>> \/ operand = ONE THEN Ok(operand)
    ELSE IF LtN[operand.mag, ONE.mag]
         THEN (IF SqrtInverted[SqrtInverse[operand.mag]].ok
               THEN Ok(MkS[FALSE, SqrtInverted[SqrtInverse[operand.mag]].val])
               ELSE Err)
    ELSE Ok(MkS[FALSE, SqrtNewton[operand.mag]])

(***************************************************************************)
(* The arithmetic of the two exchanges.  A computation panics or is done   *)
(* with a u128.                                                            *)
(***************************************************************************)
Panic == [panic |-> TRUE]
Done(v) == [panic |-> FALSE, val |-> v]

SResult == [ok : BOOLEAN, val : SInt] \cup {Err}

\* u128::from_fixed of the last line of either computation
ToU128[amount \in SInt, debug \in BOOLEAN] ==
    IF debug /\ from_fixed_overflows[amount] THEN Panic
    ELSE Done(from_fixed[amount])

\* line 145: m = m - 1
BuyGrowth(root) == fx_saturating_sub[root, ONE]

\* sqrt(m).unwrap(), m - 1, token = m * vs, u128::from_fixed(token)
BuyRoot[m \in SResult, vs \in SInt, debug \in BOOLEAN] ==
    IF ~m.ok THEN Panic
    ELSE ToU128[fx_saturating_mul[BuyGrowth(m.val), vs], debug]

\* m = vstoken / vb, m = 1 + m, and the rest
BuyFixed[vs \in SInt, vb \in SInt, vstoken \in SInt, debug \in BOOLEAN] ==
    IF vb.mag = <<>> THEN Panic
    ELSE BuyRoot[sqrt[fx_saturating_add[ONE, fx_saturating_div[vstoken, vb]]], vs, debug]

\* the Token minted for vstoken
BuyAmount[virtual_supply \in Digits, virtual_balance \in Digits, vstoken \in Digits, debug \in BOOLEAN] ==
    IF debug /\ (from_num_overflows[virtual_supply] \/ from_num_overflows[virtual_balance]
                 \/ from_num_overflows[vstoken])
    THEN Panic
    ELSE BuyFixed[from_num[virtual_supply], from_num[virtual_balance], from_num[vstoken],
                  debug]

\* m = m * m
SellSquare[m \in SInt] == fx_saturating_mul[m, m]

\* m = token / vs, m = 1 - m, m = m * m, m = 1 - m, vstoken = m * vb,
\* u128::from_fixed(vstoken)
SellFixed[vs \in SInt, vb \in SInt, token \in SInt, debug \in BOOLEAN] ==
    IF vs.mag = <<>> THEN Panic
    ELSE ToU128[fx_saturating_mul[
                    fx_saturating_sub[ONE,
                        SellSquare[fx_saturating_sub[ONE, fx_saturating_div[token, vs]]]],
                    vb], debug]

\* the VSToken returned for token
SellAmount[virtual_supply \in Digits, virtual_balance \in Digits, token \in Digits, debug \in BOOLEAN] ==
    IF debug /\ (from_num_overflows[virtual_supply] \/ from_num_overflows[virtual_balance]
                 \/ from_num_overflows[token])
    THEN Panic
    ELSE SellFixed[from_num[virtual_supply], from_num[virtual_balance], from_num[token],
                   debug]

(***************************************************************************)
(* The pallet's storage and the outcome of the last dispatched call.       *)
(***************************************************************************)
VARIABLES
    BaseSupplyOfToken,      \* StorageValue<_, u128>: None or Some(v)
    BaseBalanceOfVSToken,
    RealSupplyOfToken,
    RealBalanceOfVSToken,
    TokenSheet,             \* StorageMap<AccountId, u128, OptionQuery>
    events,                 \* the events the last call deposited
    result,                 \* how the last call ended: "Ok", "BadOrigin", "Panic"
    call,                   \* the last call: its function, origin and argument
    debug_assertions,       \* whether the runtime is built with debug assertions
    calls                   \* the number of calls dispatched so far

vars == <<BaseSupplyOfToken, BaseBalanceOfVSToken, RealSupplyOfToken, RealBalanceOfVSToken,
          TokenSheet, events, result, call, debug_assertions, calls>>

storage == <<BaseSupplyOfToken, BaseBalanceOfVSToken, RealSupplyOfToken,
             RealBalanceOfVSToken, TokenSheet>>

\* Option<u128>
None == <<>>
Some(v) == <<v>>
unwrap(o) == o[1]

Accounts == {"alice", "bob"}

\* a signed origin carries its account; any other origin (root, none) does not
Signed(who) == <<who>>
Unsigned == <<>>
Origins == {Signed(a) : a \in Accounts} \cup {Unsigned}

\* the number of calls a behaviour dispatches
MaxCalls == 3

\* 2^59, 2^62 and 2^64
Pow2_59 == <<0, 0, 0, 0, 0, 0, 0, 8>>
Pow2_62 == <<0, 0, 0, 0, 0, 0, 0, 64>>
Pow2_64 == <<0, 0, 0, 0, 0, 0, 0, 0, 1>>

\* the arguments the calls are dispatched with; 2^63 and 2^64 are the buys
\* whose conversion on line 140 overflows: wrapped, 2^63 is negative (the
\* square root of line 144 is an Err) and 2^64 is 0
InitAmounts == {U(1000), Pow2_59, Pow2_62, I128MinMag}
BuyAmounts == {U(0), U(1), U(210), U(1000), Pow2_63, Pow2_64}
SellAmounts(origin) ==
    {U(1000)} \cup (IF origin = Unsigned THEN {}
                    ELSE IF TokenSheet[origin[1]] # None THEN {unwrap(TokenSheet[origin[1]])}
                    ELSE {U(0)})

BancorInit(a, b, who) == [event |-> "BancorInit", a |-> a, b |-> b, who |-> who]
VsTokenToToken(a, b, who) == [event |-> "VsTokenToToken", a |-> a, b |-> b, who |-> who]
TokenToVsToken(a, b, who) == [event |-> "TokenToVsToken", a |-> a, b |-> b, who |-> who]

Init ==
    /\ BaseSupplyOfToken = None
    /\ BaseBalanceOfVSToken = None
    /\ RealSupplyOfToken = None
    /\ RealBalanceOfVSToken = None
    /\ TokenSheet = [a \in Accounts |-> None]
    /\ events = <<>>
    /\ result = "Ok"
    /\ call = [fn |-> "", origin |-> Unsigned, arg |-> <<>>]
    /\ debug_assertions \in BOOLEAN
    /\ calls = 0

\* the call is dispatched and recorded
Dispatch(fn, origin, arg) ==
    /\ calls < MaxCalls
    /\ calls' = calls + 1
    /\ call' = [fn |-> fn, origin |-> origin, arg |-> arg]
    /\ UNCHANGED debug_assertions

\* ensure_signed(origin)? fails: the call returns Err(BadOrigin)
BadOrigin ==
    /\ result' = "BadOrigin"
    /\ events' = <<>>
    /\ UNCHANGED storage

\* the call panics: nothing was written before the panic
Panics ==
    /\ result' = "Panic"
    /\ events' = <<>>
    /\ UNCHANGED storage

\* line 112
InitBaseSupply(base_balance) == saturating_mul[base_balance, U(2)]

\* line 115 left out: no real supply is stored
InitRealSupply_Skipped == None

\* line 115: RealSupplyOfToken::put(0)
InitRealSupply == Some(U(0))

\* the match of base_init taking its None arm whatever is stored
AlreadyInitialized_Never(stored) == FALSE

\* the match of base_init: Some(_) => { }
AlreadyInitialized(stored) == stored # None

base_init(origin, base_balance) ==
    /\ Dispatch("base_init", origin, base_balance)
    /\ IF origin = Unsigned THEN BadOrigin
       ELSE /\ result' = "Ok"
            /\ IF AlreadyInitialized(BaseSupplyOfToken)
               THEN /\ events' = <<>>
                    /\ UNCHANGED storage
               ELSE /\ BaseSupplyOfToken' = Some(InitBaseSupply(base_balance))
                    /\ BaseBalanceOfVSToken' = Some(base_balance)
                    /\ RealSupplyOfToken' = InitRealSupply
                    /\ RealBalanceOfVSToken' = Some(U(0))
                    /\ events' = <<BancorInit(InitBaseSupply(base_balance), base_balance,
                                              origin[1])>>
                    /\ UNCHANGED TokenSheet

\* one of the four unwrap() of lines 131-134 and 168-171 panics
CountersMissing ==
    \/ BaseSupplyOfToken = None
    \/ BaseBalanceOfVSToken = None
    \/ RealSupplyOfToken = None
    \/ RealBalanceOfVSToken = None

\* lines 135-136 and 172-173
virtual_supply == saturating_add[unwrap(BaseSupplyOfToken), unwrap(RealSupplyOfToken)]
virtual_balance == saturating_add[unwrap(BaseBalanceOfVSToken), unwrap(RealBalanceOfVSToken)]

\* line 153 inserting under every account
BuyTokenSheet_All(sheet, who, token) == [a \in Accounts |-> Some(token)]

\* line 153: the caller's entry after a buy of token
BuyTokenSheet(sheet, who, token) == [sheet EXCEPT ![who] = Some(token)]

\* lines 150-151
BuyRealSupply(real_supply, token) == saturating_add[real_supply, token]
BuyRealBalance(real_balance, saved_vstoken) == saturating_add[real_balance, saved_vstoken]

vstoken_buy_token(origin, vstoken) ==
    /\ Dispatch("vstoken_buy_token", origin, vstoken)
    /\ IF origin = Unsigned THEN BadOrigin
       ELSE IF CountersMissing THEN Panics
       ELSE LET buy == BuyAmount[virtual_supply, virtual_balance, vstoken, debug_assertions]
            IN  IF buy.panic THEN Panics
                ELSE /\ TokenSheet' = BuyTokenSheet(TokenSheet, origin[1], buy.val)
                     /\ RealBalanceOfVSToken' =
                            Some(BuyRealBalance(unwrap(RealBalanceOfVSToken), vstoken))
                     /\ RealSupplyOfToken' =
                            Some(BuyRealSupply(unwrap(RealSupplyOfToken), buy.val))
                     /\ events' = <<VsTokenToToken(vstoken, buy.val, origin[1])>>
                     /\ result' = "Ok"
                     /\ UNCHANGED <<BaseSupplyOfToken, BaseBalanceOfVSToken>>

\* line 190: the caller's entry after a sale of saved_token
SellTokenSheet(sheet, who, saved_token) ==
    [sheet EXCEPT ![who] = Some(saturating_sub[unwrap(sheet[who]), saved_token])]

\* lines 187-188
SellRealSupply(real_supply, saved_token) == saturating_sub[real_supply, saved_token]
SellRealBalance(real_balance, vstoken) == saturating_sub[real_balance, vstoken]

\* lines 191-192 moved before line 190: the counters are written already
AtEntryUnwrap_AfterPuts(found, computed) == computed

\* line 190 unwraps the caller's entry before it and lines 191-192 write: when
\* it panics a counter holds what the call found, not what it computed
AtEntryUnwrap(found, computed) == found

token_buy_vstoken(origin, token) ==
    /\ Dispatch("token_buy_vstoken", origin, token)
    /\ IF origin = Unsigned THEN BadOrigin
       ELSE IF CountersMissing THEN Panics
       ELSE LET sell == SellAmount[virtual_supply, virtual_balance, token, debug_assertions]
            IN  IF sell.panic THEN Panics
                ELSE IF TokenSheet[origin[1]] = None
                THEN /\ result' = "Panic"
                     /\ events' = <<>>
                     /\ RealBalanceOfVSToken' =
                            AtEntryUnwrap(RealBalanceOfVSToken,
                                Some(SellRealBalance(unwrap(RealBalanceOfVSToken), sell.val)))
                     /\ RealSupplyOfToken' =
                            AtEntryUnwrap(RealSupplyOfToken,
                                Some(SellRealSupply(unwrap(RealSupplyOfToken), token)))
                     /\ UNCHANGED <<BaseSupplyOfToken, BaseBalanceOfVSToken, TokenSheet>>
                ELSE /\ TokenSheet' = SellTokenSheet(TokenSheet, origin[1], token)
                     /\ RealBalanceOfVSToken' =
                            Some(SellRealBalance(unwrap(RealBalanceOfVSToken), sell.val))
                     /\ RealSupplyOfToken' =
                            Some(SellRealSupply(unwrap(RealSupplyOfToken), token))
                     /\ events' = <<TokenToVsToken(token, sell.val, origin[1])>>
                     /\ result' = "Ok"
                     /\ UNCHANGED <<BaseSupplyOfToken, BaseBalanceOfVSToken>>

Next ==
    \/ \E origin \in Origins, base_balance \in InitAmounts : base_init(origin, base_balance)
    \/ \E origin \in Origins, vstoken \in BuyAmounts : vstoken_buy_token(origin, vstoken)
    \/ \E origin \in Origins : \E token \in SellAmounts(origin) :
           token_buy_vstoken(origin, token)

Spec == Init /\ [][Next]_vars

(***************************************************************************)
(* What the claims speak of.                                               *)
(***************************************************************************)
\* an absent value counts as 0
Amount(o) == IF o = None THEN U(0) ELSE unwrap(o)

RECURSIVE SumTokens(_, _)
\* the sum of the Token amounts of the accounts S in sheet
SumTokens(sheet, S) ==
    IF S = {} THEN U(0)
    ELSE AddN[Amount(sheet[CHOOSE a \in S : TRUE]),
              SumTokens(sheet, S \ {CHOOSE a \in S : TRUE})]

\* the step dispatches fn from a signed origin
Calls(fn) == call'.fn = fn /\ call'.origin # Unsigned

\* the call returned an error to its caller: it neither succeeded nor panicked
ReturnedError(r) == r \notin {"Ok", "Panic"}

\* C1: in every reachable state real_supply is the sum of the Token amounts
\* of all ledger entries, an absent entry counting as 0.
C1_Conservation ==
    RealSupplyOfToken # None =>
        unwrap(RealSupplyOfToken) = SumTokens(TokenSheet, Accounts)

\* C2: a successful buy of x that mints `minted` adds minted to real_supply
\* and to the caller's entry (0 if absent) and x to real_balance.
C2_BuyAccumulates ==
    [][(Calls("vstoken_buy_token") /\ result' = "Ok") =>
         /\ RealSupplyOfToken' = Some(AddN[unwrap(RealSupplyOfToken), events'[1].b])
         /\ RealBalanceOfVSToken' = Some(AddN[unwrap(RealBalanceOfVSToken), call'.arg])
         /\ TokenSheet'[call'.origin[1]] =
                Some(AddN[Amount(TokenSheet[call'.origin[1]]), events'[1].b])]_vars

\* C3: in an initialized curve a sell of t by a caller whose entry (0 if
\* absent) is below t returns an error, changes no counter and no ledger
\* entry, and emits nothing.
C3_InsufficientBalanceRejected ==
    [][(Calls("token_buy_vstoken") /\ ~CountersMissing
        /\ LtN[Amount(TokenSheet[call'.origin[1]]), call'.arg]) =>
         /\ ReturnedError(result')
         /\ UNCHANGED storage
         /\ events' = <<>>]_vars

\* C4: a buy or sell on a curve that was never initialized returns an error,
\* and afterwards no counter and no ledger entry exists.
C4_UninitializedRejected ==
    [][((Calls("vstoken_buy_token") \/ Calls("token_buy_vstoken"))
        /\ BaseSupplyOfToken = None) =>
         /\ ReturnedError(result')
         /\ BaseSupplyOfToken' = None /\ BaseBalanceOfVSToken' = None
         /\ RealSupplyOfToken' = None /\ RealBalanceOfVSToken' = None
         /\ \A a \in Accounts : TokenSheet'[a] = None]_vars

\* C5: base_init on an initialized curve, with any argument and from any
\* account, succeeds, leaves the four counters and the ledger as they were
\* and deposits no event.
C5_InitIdempotent ==
    [][(Calls("base_init") /\ ~CountersMissing) =>
         /\ result' = "Ok"
         /\ UNCHANGED storage
         /\ events' = <<>>]_vars

\* a base_init that found the curve initialized, after a buy, with another
\* argument than the one the curve was initialized with
C5_Witness ==
    /\ call.fn = "base_init" /\ call.origin # Unsigned /\ result = "Ok" /\ events = <<>>
    /\ RealBalanceOfVSToken \notin {None, Some(U(0))}
    /\ call.arg # unwrap(BaseBalanceOfVSToken)

\* C6: a successful sell of t that returns `returned` subtracts t from
\* real_supply and from the caller's entry and `returned` from real_balance,
\* each subtraction exact.
C6_SellSubtractsExactly ==
    [][(Calls("token_buy_vstoken") /\ result' = "Ok") =>
         /\ AddN[unwrap(RealSupplyOfToken'), call'.arg] = unwrap(RealSupplyOfToken)
         /\ AddN[unwrap(RealBalanceOfVSToken'), events'[1].b] = unwrap(RealBalanceOfVSToken)
         /\ AddN[Amount(TokenSheet'[call'.origin[1]]), call'.arg] =
                Amount(TokenSheet[call'.origin[1]])]_vars

\* C7: a call whose counter or ledger update would leave the u128 range, or
\* go below zero, does not succeed: a call that succeeds wrote the exact
\* values.
C7_NoSilentSaturation ==
    [][result' = "Ok" =>
         /\ (Calls("base_init") /\ BaseSupplyOfToken = None) =>
                unwrap(BaseSupplyOfToken') = MulN[call'.arg, U(2)]
         /\ Calls("vstoken_buy_token") =>
                /\ unwrap(RealSupplyOfToken') =
                       AddN[unwrap(RealSupplyOfToken), events'[1].b]
                /\ unwrap(RealBalanceOfVSToken') =
                       AddN[unwrap(RealBalanceOfVSToken), call'.arg]
         /\ Calls("token_buy_vstoken") =>
                /\ ~LtN[unwrap(RealSupplyOfToken), call'.arg]
                /\ ~LtN[unwrap(RealBalanceOfVSToken), events'[1].b]
                /\ ~LtN[Amount(TokenSheet[call'.origin[1]]), call'.arg]]_vars

\* the state is the one a buy of x <= base_balance, x >= 1, left on a curve
\* without real liquidity
AfterFirstBuy ==
    /\ call.fn = "vstoken_buy_token" /\ call.origin # Unsigned /\ result = "Ok"
    /\ RealBalanceOfVSToken = Some(call.arg)
    /\ RealSupplyOfToken = Some(events[1].b)
    /\ call.arg # U(0)
    /\ ~LtN[unwrap(BaseBalanceOfVSToken), call.arg]

\* C8: a buy of x, 1 <= x <= base_balance, on a curve without real
\* liquidity, followed at once by the sale of the t tokens it minted, returns
\* y with |y - x| <= 1.
C8_RoundTripWithinOne ==
    [][(AfterFirstBuy /\ Calls("token_buy_vstoken") /\ call'.origin = call.origin
        /\ call'.arg = events[1].b /\ result' = "Ok") =>
         /\ ~LtN[AddN[events'[1].b, U(1)], call.arg]
         /\ ~LtN[AddN[call.arg, U(1)], events'[1].b]]_vars

\* the outcomes of the buys of the amounts of BuyAmounts from this state
BuyOutcomes ==
    [x \in BuyAmounts |-> BuyAmount[virtual_supply, virtual_balance, x, debug_assertions]]

\* what a buy of each amount of BuyAmounts does
Outcomes == [BuyAmounts -> [panic : BOOLEAN, val : Digits] \cup {Panic}]

\* strictly increasing over the buys that succeed
StrictlyMonotone[minted \in Outcomes] ==
    \A x1, x2 \in BuyAmounts :
        (LtN[x1, x2] /\ ~minted[x1].panic /\ ~minted[x2].panic) =>
            LtN[minted[x1].val, minted[x2].val]

\* C9: from any initialized state, for two amounts x1 < x2 the buy of x1
\* mints strictly less than the buy of x2.
C9_BuyStrictlyMonotone == ~CountersMissing => StrictlyMonotone[BuyOutcomes]

\* C10: base_init of r on an uninitialized curve sets base_supply = 2 * r,
\* base_balance = r, real_supply = real_balance = 0, creates no ledger entry
\* and deposits BancorInit(base_supply, base_balance, caller).
C10_InitSetsCounters ==
    [][(Calls("base_init") /\ BaseSupplyOfToken = None) =>
         /\ result' = "Ok"
         /\ BaseSupplyOfToken' = Some(MulN[call'.arg, U(2)])
         /\ BaseBalanceOfVSToken' = Some(call'.arg)
         /\ RealSupplyOfToken' = Some(U(0))
         /\ RealBalanceOfVSToken' = Some(U(0))
         /\ \A a \in Accounts : TokenSheet'[a] = None
         /\ events' = <<BancorInit(MulN[call'.arg, U(2)], call'.arg, call'.origin[1])>>]_vars

\* (vs + m)^2 * vb <= vs^2 * (vb + x)
FitsBuy(vs, vb, x, m) ==
    ~LtN[MulN[MulN[vs, vs], AddN[vb, x]], MulN[MulN[AddN[vs, m], AddN[vs, m]], vb]]

\* m = floor((sqrt(1 + x/vb) - 1) * vs): the largest m that fits
IsFloorBuy(vs, vb, x, m) == FitsBuy(vs, vb, x, m) /\ ~FitsBuy(vs, vb, x, AddN[m, U(1)])

\* C11: with vb > 0 a successful buy of x mints exactly
\* floor((sqrt(1 + x/vb) - 1) * vs), the largest integer m with
\* (vs + m)^2 * vb <= vs^2 * (vb + x), vs and vb taken before the buy.
C11_BuyPricing ==
    [][(Calls("vstoken_buy_token") /\ result' = "Ok" /\ virtual_balance # U(0)) =>
         IsFloorBuy(virtual_supply, virtual_balance, call'.arg, events'[1].b)]_vars

\* y = floor(vb * t * (2 * vs - t) / vs^2)
IsFloorSell(vs, vb, t, y) ==
    /\ vs # U(0)
    /\ ~LtN[MulN[vs, U(2)], t]
    /\ y = DivN[MulN[MulN[vb, t], SubN[MulN[vs, U(2)], t]], MulN[vs, vs]]

\* C12: a successful sell of t returns exactly
\* floor(vb * t * (2 * vs - t) / vs^2), vs and vb taken before the sell.
C12_SellPricing ==
    [][(Calls("token_buy_vstoken") /\ result' = "Ok") =>
         IsFloorSell(virtual_supply, virtual_balance, call'.arg, events'[1].b)]_vars

\* C13: once base_supply and base_balance are stored, no call, successful
\* or failing, changes either of them.
C13_BaseWrittenOnce ==
    [][BaseSupplyOfToken # None =>
         /\ BaseSupplyOfToken' = BaseSupplyOfToken
         /\ BaseBalanceOfVSToken' = BaseBalanceOfVSToken]_vars

\* a curve initialized with 1000 on which a sale succeeded, returning VSToken
\* and leaving the caller no Token: base_balance is still 1000
C13_Witness ==
    /\ call.fn = "token_buy_vstoken" /\ result = "Ok"
    /\ BaseBalanceOfVSToken = Some(U(1000))
    /\ TokenSheet[call.origin[1]] = Some(U(0))
    /\ events[1].b # U(0)

\* none of the four counters exists and the ledger is empty
Uninitialized ==
    /\ BaseSupplyOfToken = None /\ BaseBalanceOfVSToken = None
    /\ RealSupplyOfToken = None /\ RealBalanceOfVSToken = None
    /\ \A a \in Accounts : TokenSheet[a] = None

\* all four counters exist
Initialized == ~CountersMissing

\* C14: the curve is Uninitialized or Initialized in every state; the first
\* base_init makes it Initialized, and an Initialized curve stays so.
C14_Lifecycle ==
    [][/\ Uninitialized \/ Initialized
       /\ Uninitialized' \/ Initialized'
       /\ Initialized => Initialized'
       /\ (Calls("base_init") /\ Uninitialized) => Initialized']_vars

\* an Initialized curve with a ledger entry, after a call that failed
C14_Witness ==
    /\ Initialized
    /\ result # "Ok"
    /\ \E a \in Accounts : TokenSheet[a] # None

\* the call wrote all it writes when it succeeds, as its event reports it
AllWritten ==
    /\ Calls("base_init") =>
           \/ UNCHANGED storage /\ events' = <<>>
           \/ /\ Uninitialized /\ Initialized' /\ Len(events') = 1
              /\ UNCHANGED TokenSheet
    /\ Calls("vstoken_buy_token") =>
           /\ Len(events') = 1
           /\ RealSupplyOfToken' =
                  Some(saturating_add[unwrap(RealSupplyOfToken), events'[1].b])
           /\ RealBalanceOfVSToken' =
                  Some(saturating_add[unwrap(RealBalanceOfVSToken), events'[1].a])
           /\ TokenSheet'[call'.origin[1]] = Some(events'[1].b)
    /\ Calls("token_buy_vstoken") =>
           /\ Len(events') = 1
           /\ RealSupplyOfToken' =
                  Some(saturating_sub[unwrap(RealSupplyOfToken), events'[1].a])
           /\ RealBalanceOfVSToken' =
                  Some(saturating_sub[unwrap(RealBalanceOfVSToken), events'[1].b])
           /\ TokenSheet'[call'.origin[1]] =
                  Some(saturating_sub[unwrap(TokenSheet[call'.origin[1]]), events'[1].a])

\* C15: a call either succeeds and applies all its counter and ledger
\* updates together, or fails having written nothing and deposited no event.
C15_Atomicity ==
    [][IF result' = "Ok" THEN AllWritten
       ELSE UNCHANGED storage /\ events' = <<>>]_vars

\* a sale that failed at the caller's missing entry, on a curve whose real
\* supply and balance the sale would have lowered
C15_Witness ==
    /\ call.fn = "token_buy_vstoken" /\ call.origin # Unsigned /\ result = "Panic"
    /\ Initialized
    /\ TokenSheet[call.origin[1]] = None
    /\ unwrap(RealSupplyOfToken) # U(0) /\ unwrap(RealBalanceOfVSToken) # U(0)
    /\ ~SellAmount[virtual_supply, virtual_balance, call.arg, debug_assertions].panic

\* C16: in an initialized curve a sell by an account without an entry is the
\* sell of an account holding 0: of 0 it succeeds, returns 0 and leaves the
\* four counters as they were; of more it returns an error.
C16_AbsentEntryIsZero ==
    [][(Calls("token_buy_vstoken") /\ Initialized /\ TokenSheet[call'.origin[1]] = None) =>
         IF call'.arg = U(0)
         THEN /\ result' = "Ok"
              /\ events' = <<TokenToVsToken(U(0), U(0), call'.origin[1])>>
              /\ UNCHANGED <<BaseSupplyOfToken, BaseBalanceOfVSToken, RealSupplyOfToken,
                             RealBalanceOfVSToken>>
         ELSE ReturnedError(result')]_vars

\* the divisor a buy (line 142) or a sell (line 179) divides by when it
\* reaches its division is not zero: it is the conversion of amount, which a
\* build with debug assertions does not let overflow
DivisorNonZero(amount) ==
    \/ debug_assertions /\ from_num_overflows[amount]
    \/ from_num[amount] # MkS[FALSE, U(0)]

\* C17: once initialized with a positive reserve, virtual_balance and
\* virtual_supply are positive in every reachable state, so that neither the
\* buy's division by virtual_balance nor the sell's by virtual_supply divides
\* by zero.
C17_DivisorsPositive ==
    (Initialized /\ unwrap(BaseBalanceOfVSToken) # U(0)) =>
        /\ virtual_balance # U(0)
        /\ virtual_supply # U(0)
        /\ DivisorNonZero(virtual_balance)
        /\ DivisorNonZero(virtual_supply)

\* C18: the VSToken a successful sell returns, and reports in its event, is
\* at most real_balance as it was before the sell.
C18_PoolSolvency ==
    [][(Calls("token_buy_vstoken") /\ result' = "Ok") =>
         ~LtN[unwrap(RealBalanceOfVSToken), events'[1].b]]_vars

\* C19: a buy or a sell by an account changes no other account's entry, nor
\* whether it exists.
C19_LedgerIsolation ==
    [][(Calls("vstoken_buy_token") \/ Calls("token_buy_vstoken")) =>
         \A b \in Accounts \ {call'.origin[1]} : TokenSheet'[b] = TokenSheet[b]]_vars

\* a buy that minted Token succeeded while another account held an entry of
\* another amount
C19_Witness ==
    /\ call.fn = "vstoken_buy_token" /\ call.origin # Unsigned /\ result = "Ok"
    /\ events[1].b # U(0)
    /\ \E b \in Accounts \ {call.origin[1]} :
           TokenSheet[b] \notin {None, TokenSheet[call.origin[1]]}

\* the state is the one a successful buy left
AfterBuy == call.fn = "vstoken_buy_token" /\ call.origin # Unsigned /\ result = "Ok"

\* the step is the successful sale, by the buyer, of what the buy minted
SellsBack ==
    /\ Calls("token_buy_vstoken") /\ call'.origin = call.origin
    /\ call'.arg = events[1].b /\ result' = "Ok"

\* C20: from any reachable initialized state a buy of x, followed at once by
\* the sale of the t tokens it minted, returns y <= x.
C20_NoRoundingProfit ==
    [][(AfterBuy /\ SellsBack) => ~LtN[call.arg, events'[1].b]]_vars
====
